---------------------------- MODULE Spec2Model ----------------------------
(***************************************************************************)
(* A model of auto-typer.py: the signature range resolver                  *)
(* (get_typed_function_ranges), the typedness classifier                   *)
(* (get_function_typedness), the prompt builder (prep_file) and the splice *)
(* loop, typing-import step and directory walk of auto_typing / main.      *)
(*                                                                         *)
(* A source file is a sequence of top-level statements.  Every statement   *)
(* carries what ast.parse and tokenize expose of it: its node type, the    *)
(* physical lines of a function signature, the blank and comment lines     *)
(* after the colon, the argument lists with their annotations, the return  *)
(* annotation and the body statements.  Line numbers are 1-based as in     *)
(* ast; lists are indexed through Slice, which follows Python's 0-based    *)
(* half-open slices.                                                       *)
(***************************************************************************)
EXTENDS Integers, Sequences, FiniteSets, TLC

VARIABLES
    mode,               \* "dir" | "file": os.path.isdir(args.path)
    remaining,          \* entries of the walk main has not visited yet
    pc,                 \* position of the program
    exception,          \* the exception that left the program, or "none"
    parse_failed,       \* ast.parse raised SyntaxError for the current file
    content,            \* the parsed file: a sequence of top-level statements
    first_import_line,  \* auto_typing's first_import_line (NoLine for None)
    lines,              \* auto_typing's lines
    offset,             \* auto_typing's running offset
    fn_index,           \* next top-level node the range generator looks at
    function_range,     \* the TypedFunctionRange last yielded
    prepped,            \* the prompt prep_file returned
    completion,         \* completion_lines, NoCompletion for None
    before_import,      \* lines as the splice loop left them
    history             \* per non-skipped function: what the loop did with it

vars == <<mode, remaining, pc, exception, parse_failed, content,
          first_import_line, lines, offset, fn_index, function_range, prepped,
          completion, before_import, history>>

-----------------------------------------------------------------------------
(* Bounds of the model *)

MaxArgs == 2
MaxOtherArgs == 1
MaxBody == 2
MaxTrailing == 2
MaxSigMid == 1
MaxStmts == 2
MaxFiles == 2
MaxCompletionLines == 2

-----------------------------------------------------------------------------
(* Python values *)

NoLine == 0
NoCompletion == <<>>

Min(a, b) == IF a < b THEN a ELSE b

\* Python's s[lo:hi] on a list, for 0 <= lo and 0 <= hi
Slice(s, lo, hi) == SubSeq(s, lo + 1, Min(hi, Len(s)))
\* Python's s[lo:]
SliceFrom(s, lo) == SubSeq(s, lo + 1, Len(s))
\* Python's s[:hi]
SliceTo(s, hi) == SubSeq(s, 1, Min(hi, Len(s)))

SeqUpTo(S, n) == UNION {[1..k -> S] : k \in 0..n}

RECURSIVE Sum(_)
Sum(s) == IF s = <<>> THEN 0 ELSE Head(s) + Sum(Tail(s))

RECURSIVE Flatten(_)
Flatten(ss) == IF ss = <<>> THEN <<>> ELSE Head(ss) \o Flatten(Tail(ss))

-----------------------------------------------------------------------------
(* Source files as ast and tokenize see them *)

\* an ast.arg: only whether it carries an annotation matters
ArgKinds == {"bare", "annotated"}
\* vararg and kwarg of ast.arguments are an optional ast.arg
OptArgKinds == {"none", "bare", "annotated"}

\* simple statements can share the line of the colon; compound ones cannot
SimpleBodyKinds == {"pass", "return", "yield", "yield_from", "import"}
BodyKinds == SimpleBodyKinds \cup {"if_return", "def_return", "decorated_def"}

EmptyArguments ==
    [posonlyargs |-> <<>>, args |-> <<>>, vararg |-> "none",
     kwonlyargs |-> <<>>, kwarg |-> "none"]

SimpleStmt(type, module) ==
    [type |-> type, module |-> module, sig |-> <<>>, inline |-> FALSE,
     trailing |-> <<>>, args |-> EmptyArguments, returns |-> FALSE,
     body |-> <<>>]

FunctionDef(sig, inline, trailing, args, returns, body) ==
    [type |-> "FunctionDef", module |-> "none", sig |-> sig, inline |-> inline,
     trailing |-> trailing, args |-> args, returns |-> returns, body |-> body]

\* physical lines a body statement takes
BodyStmtLines(kind) ==
    CASE kind \in SimpleBodyKinds -> 1
      [] kind \in {"if_return", "def_return"} -> 2
      [] kind = "decorated_def" -> 3

\* ast's lineno of a body statement whose first physical line is l: a decorated
\* def is reported at its def keyword, below the decorator
BodyStmtLineno(kind, l) == IF kind = "decorated_def" THEN l + 1 ELSE l

BodyLineCount(body) == Sum([j \in 1..Len(body) |-> BodyStmtLines(body[j])])

NumLines(stmt) ==
    IF stmt.type # "FunctionDef" THEN 1
    ELSE Len(stmt.sig)
         + (IF stmt.inline THEN 0 ELSE Len(stmt.trailing) + BodyLineCount(stmt.body))

\* node.lineno of top-level statement i
StartLine(c, i) == 1 + Sum([j \in 1..(i - 1) |-> NumLines(c[j])])

TotalLines(c) == Sum([j \in 1..Len(c) |-> NumLines(c[j])])

\* the line holding the terminating colon of the signature
ColonLine(stmt, start) == start + Len(stmt.sig) - 1

\* first physical line of body statement j
BodyStmtFirstLine(stmt, start, j) ==
    IF stmt.inline THEN ColonLine(stmt, start)
    ELSE ColonLine(stmt, start) + 1 + Len(stmt.trailing)
         + BodyLineCount(SubSeq(stmt.body, 1, j - 1))

\* node.body[0].lineno
FirstBodyLineno(stmt, start) ==
    BodyStmtLineno(stmt.body[1], BodyStmtFirstLine(stmt, start, 1))

\* node.end_lineno
EndLineno(stmt, start) == start + NumLines(stmt) - 1

\* an ast node as the tree walks read it
Node(type, lineno, module) == [type |-> type, lineno |-> lineno, module |-> module]

\* the children of a function body, by depth below the module
BodyDepth2(kind, l) ==
    CASE kind = "pass" -> <<Node("Pass", l, "none")>>
      [] kind = "return" -> <<Node("Return", l, "none")>>
      [] kind \in {"yield", "yield_from"} -> <<Node("Expr", l, "none")>>
      [] kind = "import" -> <<Node("Import", l, "os")>>
      [] kind = "if_return" -> <<Node("If", l, "none")>>
      [] kind = "def_return" -> <<Node("FunctionDef", l, "none")>>
      [] kind = "decorated_def" -> <<Node("FunctionDef", l + 1, "none")>>

BodyDepth3(kind, l) ==
    CASE kind = "yield" -> <<Node("Yield", l, "none")>>
      [] kind = "yield_from" -> <<Node("YieldFrom", l, "none")>>
      [] kind = "if_return" -> <<Node("Return", l + 1, "none")>>
      [] kind = "def_return" -> <<Node("Return", l + 1, "none")>>
      [] kind = "decorated_def" -> <<Node("Return", l + 2, "none")>>
      [] OTHER -> <<>>

TopLevelNodes(c) ==
    [i \in 1..Len(c) |-> Node(c[i].type, StartLine(c, i), c[i].module)]

Depth2Nodes(c) ==
    Flatten([i \in 1..Len(c) |->
        Flatten([j \in 1..Len(c[i].body) |->
            BodyDepth2(c[i].body[j], BodyStmtFirstLine(c[i], StartLine(c, i), j))])])

Depth3Nodes(c) ==
    Flatten([i \in 1..Len(c) |->
        Flatten([j \in 1..Len(c[i].body) |->
            BodyDepth3(c[i].body[j], BodyStmtFirstLine(c[i], StartLine(c, i), j))])])

\* ast.walk(tree): breadth first, so every top-level statement comes before any
\* statement of a function body
Walk(c) == TopLevelNodes(c) \o Depth2Nodes(c) \o Depth3Nodes(c)

-----------------------------------------------------------------------------
(* tokenize.tokenize on the slice of a function's lines *)

SigFirstKinds == {"def_colon", "def_colon_comment"}
SigCloseKinds == {"close_colon", "close_colon_comment"}
SigMidKinds == {"param", "comment", "blank"}
TrailingKinds == {"blank", "comment"}

\* a signature: one line "def f(x):", or "def f(" ... "):" with parameter,
\* comment-only and blank lines in between
Signatures ==
    {<<k>> : k \in SigFirstKinds}
    \cup {<<"def_open">> \o mid \o <<k>> :
            mid \in SeqUpTo(SigMidKinds, MaxSigMid), k \in SigCloseKinds}

Tok(type, exact_type) == [type |-> type, exact_type |-> exact_type, nlines |-> 1]

\* the tokens of one physical line
LineTokens(kind) ==
    CASE kind = "def_colon" ->
            <<Tok("NAME", "NAME"), Tok("NAME", "NAME"), Tok("OP", "LPAR"),
              Tok("NAME", "NAME"), Tok("OP", "RPAR"), Tok("OP", "COLON"),
              Tok("NEWLINE", "NEWLINE")>>
      [] kind = "def_colon_comment" ->
            <<Tok("NAME", "NAME"), Tok("NAME", "NAME"), Tok("OP", "LPAR"),
              Tok("NAME", "NAME"), Tok("OP", "RPAR"), Tok("OP", "COLON"),
              Tok("COMMENT", "COMMENT"), Tok("NEWLINE", "NEWLINE")>>
      [] kind = "def_open" ->
            <<Tok("NAME", "NAME"), Tok("NAME", "NAME"), Tok("OP", "LPAR"),
              Tok("NL", "NL")>>
      [] kind = "param" ->
            <<Tok("NAME", "NAME"), Tok("OP", "COLON"), Tok("NAME", "NAME"),
              Tok("OP", "COMMA"), Tok("NL", "NL")>>
      [] kind = "comment" -> <<Tok("COMMENT", "COMMENT"), Tok("NL", "NL")>>
      [] kind = "blank" -> <<Tok("NL", "NL")>>
      [] kind = "close_colon" ->
            <<Tok("OP", "RPAR"), Tok("OP", "COLON"), Tok("NEWLINE", "NEWLINE")>>
      [] kind = "close_colon_comment" ->
            <<Tok("OP", "RPAR"), Tok("OP", "COLON"), Tok("COMMENT", "COMMENT"),
              Tok("NEWLINE", "NEWLINE")>>
      [] kind = "decorator" ->
            <<Tok("INDENT", "INDENT"), Tok("OP", "AT"), Tok("NAME", "NAME"),
              Tok("NEWLINE", "NEWLINE")>>
      [] kind = "statement" ->
            <<Tok("INDENT", "INDENT"), Tok("NAME", "NAME"),
              Tok("NEWLINE", "NEWLINE")>>

BodyPhysicalLines(kind) ==
    CASE kind \in SimpleBodyKinds -> <<"statement">>
      [] kind \in {"if_return", "def_return"} -> <<"statement", "statement">>
      [] kind = "decorated_def" -> <<"decorator", "statement", "statement">>

\* the physical lines of a function definition; an inline body shares the line
\* of the colon
PhysicalLines(stmt) ==
    IF stmt.inline THEN stmt.sig
    ELSE stmt.sig \o stmt.trailing
         \o Flatten([j \in 1..Len(stmt.body) |-> BodyPhysicalLines(stmt.body[j])])

\* tokenize raises TokenError ("EOF in multi-line statement") when the text
\* ends inside the parentheses of the parameter list
TokenizeRaises(slice) ==
    /\ slice # <<>>
    /\ slice[1] = "def_open"
    /\ \A i \in 1..Len(slice) : slice[i] \notin SigCloseKinds

Tokenize(slice) ==
    <<Tok("ENCODING", "ENCODING")>>
    \o Flatten([i \in 1..Len(slice) |-> LineTokens(slice[i])])
    \o (IF \E i \in 1..Len(slice) : slice[i] \in {"decorator", "statement"}
        THEN <<Tok("DEDENT", "DEDENT")>> ELSE <<>>)
    \o <<Tok("ENDMARKER", "ENDMARKER")>>

-----------------------------------------------------------------------------
(* get_typed_function_ranges: the signature range *)

\* the loop over reversed(tokens): i is the token the loop is at
RECURSIVE AdjustEnd(_, _, _)
AdjustEnd(tokens, i, end) ==
    IF i = 0 THEN end
    ELSE LET tokeninfo == tokens[i] IN
         IF tokeninfo.exact_type = "COLON" THEN end
         ELSE IF tokeninfo.type = "COMMENT" THEN AdjustEnd(tokens, i - 1, end)
         ELSE IF tokeninfo.type = "NL" THEN AdjustEnd(tokens, i - 1, end - 1)
         ELSE IF tokeninfo.type = "STRING"
              THEN AdjustEnd(tokens, i - 1, end - tokeninfo.nlines)
         ELSE AdjustEnd(tokens, i - 1, end)

\* source.splitlines(keepends=True)[start - 1 : end]
FundefSlice(stmt, start, end) == Slice(PhysicalLines(stmt), 0, end - start + 1)

InitialEnd(stmt, start) == FirstBodyLineno(stmt, start) - 1

RangeRaises(stmt, start) ==
    TokenizeRaises(FundefSlice(stmt, start, InitialEnd(stmt, start)))

RangeEnd(stmt, start) ==
    LET end == InitialEnd(stmt, start)
        tokens == Tokenize(FundefSlice(stmt, start, end))
    IN  AdjustEnd(tokens, Len(tokens), end)

-----------------------------------------------------------------------------
(* get_function_typedness *)

all_args_have_type(function_node) ==
    \A i \in 1..Len(function_node.args.args) :
        function_node.args.args[i] = "annotated"

has_return_type(function_node) == function_node.returns

has_return_statement(function_node, tree) ==
    \E k \in 1..Len(Walk(tree)) :
        LET node == Walk(tree)[k] IN
        /\ node.type \in {"Return", "Yield"}
        /\ FirstBodyLineno(function_node, function_node.lineno) <= node.lineno
        /\ node.lineno <= EndLineno(function_node, function_node.lineno)

get_function_typedness(function_node, tree) ==
    IF ~all_args_have_type(function_node) THEN "no_args"
    ELSE IF has_return_statement(function_node, tree)
            /\ ~has_return_type(function_node)
         THEN "no_return"
         ELSE "fully"

\* the ast node of top-level statement i: the statement and its lineno
NodeAt(c, i) ==
    [type |-> c[i].type, module |-> c[i].module, sig |-> c[i].sig,
     inline |-> c[i].inline, trailing |-> c[i].trailing, args |-> c[i].args,
     returns |-> c[i].returns, body |-> c[i].body, lineno |-> StartLine(c, i)]

NoNode ==
    [type |-> "none", module |-> "none", sig |-> <<>>, inline |-> FALSE,
     trailing |-> <<>>, args |-> EmptyArguments, returns |-> FALSE,
     body |-> <<>>, lineno |-> NoLine]

NoRange == [typedness |-> "none", start |-> NoLine, end |-> NoLine, node |-> NoNode]

TypedFunctionRange(c, i) ==
    [typedness |-> get_function_typedness(NodeAt(c, i), c),
     start |-> StartLine(c, i),
     end |-> RangeEnd(c[i], StartLine(c, i)),
     node |-> NodeAt(c, i)]

\* the top-level FunctionDef nodes at or after position i, in source order
FunctionIndexes(c, i) == {j \in i..Len(c) : c[j].type = "FunctionDef"}

HasNextFunction(c, i) == FunctionIndexes(c, i) # {}

NextFunction(c, i) == CHOOSE j \in FunctionIndexes(c, i) :
                          \A k \in FunctionIndexes(c, i) : j <= k

-----------------------------------------------------------------------------
(* Lines of text.  A line of the file is known by its number in the file as  *)
(* read; the lines the program makes are known by what made them.            *)

Line(src, n, k) == [src |-> src, n |-> n, k |-> k]

\* line i of the file as read
Orig(i) == Line("orig", i, 0)
\* "from typing import *\n"
TypingStar == Line("typing_star", 0, 0)
\* "\n"
Newline == Line("newline", 0, 0)
\* prep_function_def of the function whose def is on line start
PrepFunctionDef(start) == Line("prep_function_def", start, 0)
\* "from typing import"
TypingImportPrefix == Line("typing_import", 0, 0)
\* the completion of the typing import, or " *" when the oracle failed
ImportCompletion(outcome) == Line(outcome, 0, 0)

\* content.splitlines(keepends=True)
SplitLines(c) == [i \in 1..TotalLines(c) |-> Orig(i)]

\* (prep_function_def + completion + "\n").splitlines(keepends=True), when the
\* text splits into k lines
CompletionLines(start, k) == [j \in 1..k |-> Line("completion", start, j)]

-----------------------------------------------------------------------------
(* find_first_import *)

\* node.lineno of the first node of the walk among those at positions hits,
\* NoLine when there is none: the loop breaks at the first match
FirstLineno(nodes, hits) ==
    IF hits = {} THEN NoLine
    ELSE nodes[CHOOSE k \in hits : \A m \in hits : k <= m].lineno

IsImport(node) == node.type = "Import"

find_first_import(c) ==
    FirstLineno(Walk(c), {k \in 1..Len(Walk(c)) : IsImport(Walk(c)[k])})

-----------------------------------------------------------------------------
(* prep_file *)

PrepFileAssertion(function_range_, first_import_line_) ==
    first_import_line_ < function_range_.start

\* prep_file cutting at the line numbers of the file as read, without the shift
\* by the inserted typing import
prep_file_unshifted(content_lines, function_range_, prep_function_def, first_import_line_) ==
    LET typing_import == <<TypingStar>>
        lines_ == IF first_import_line_ = NoLine
                  THEN typing_import \o content_lines
                  ELSE SliceTo(content_lines, first_import_line_ - 1)
                       \o typing_import
                       \o SliceFrom(content_lines, first_import_line_ - 1)
    IN  SliceFrom(lines_, function_range_.end)
        \o <<Newline>>
        \o SliceTo(lines_, function_range_.start - 1)
        \o <<prep_function_def>>

prep_file(content_lines, function_range_, prep_function_def, first_import_line_) ==
    LET typing_import == <<TypingStar>>
        lines_ == IF first_import_line_ = NoLine
                  THEN typing_import \o content_lines
                  ELSE SliceTo(content_lines, first_import_line_ - 1)
                       \o typing_import
                       \o SliceFrom(content_lines, first_import_line_ - 1)
    IN  SliceFrom(lines_, function_range_.end + 1)
        \o <<Newline>>
        \o SliceTo(lines_, function_range_.start)
        \o <<prep_function_def>>

-----------------------------------------------------------------------------
(* auto_typing: the splice and the typing import *)

\* lines[:start_line] + completion_lines + lines[end_line:]
SpliceLines(lines_, offset_, function_range_, completion_lines) ==
    LET start_line == function_range_.start - 1 + offset_
        end_line == function_range_.end + offset_
    IN  SliceTo(lines_, start_line) \o completion_lines \o SliceFrom(lines_, end_line)

\* the offset counting a range of end - start lines
OffsetAfterShortRange(offset_, function_range_, completion_lines) ==
    offset_ + Len(completion_lines)
            - (function_range_.end - function_range_.start)

OffsetAfter(offset_, function_range_, completion_lines) ==
    offset_ + Len(completion_lines)
            - (function_range_.end + 1 - function_range_.start)

\* what openai.Completion.create can raise: the rejection of a prompt that is
\* too long, and the failures of the request itself (connection, timeout, rate
\* limit), which stand here under one name
OracleExceptions == {"InvalidRequestError", "APIConnectionError"}

\* try_complete_or_shorten: except openai.error.InvalidRequestError, then the retry
CaughtInTryComplete(exc) == exc = "InvalidRequestError"

\* the loop of auto_typing: except openai.error.InvalidRequestError
CaughtInLoop(exc) == exc = "InvalidRequestError"

\* the typing-import completion: except openai.error.InvalidRequestError
CaughtAtImport(exc) == exc = "InvalidRequestError"

IsTypingImport(node) ==
    /\ node.type \in {"Import", "ImportFrom"}
    /\ node.module = "typing"

\* node.lineno of the first typing import of the walk, NoLine when none
TypingImportLine(c) ==
    FirstLineno(Walk(c), {k \in 1..Len(Walk(c)) : IsTypingImport(Walk(c)[k])})

NewTypingImport(import_completion) ==
    <<TypingImportPrefix, ImportCompletion(import_completion), Newline>>

\* first_import_line after the walk for a typing import: the loop assigns
\* node.lineno of the typing import it finds, and leaves the local alone otherwise
FirstImportLineAfterWalk(c, first_import_line_) ==
    IF TypingImportLine(c) # NoLine THEN TypingImportLine(c) ELSE first_import_line_

\* "if typing import exists replace it", then the insertion of the new import
WithTypingImport(c, lines_, first_import_line_, import_completion) ==
    LET typing_line == TypingImportLine(c)
        line_ == FirstImportLineAfterWalk(c, first_import_line_)
        removed == IF typing_line # NoLine
                   THEN SliceTo(lines_, line_ - 1) \o SliceFrom(lines_, line_)
                   ELSE lines_
    IN  IF line_ = NoLine
        THEN NewTypingImport(import_completion) \o removed
        ELSE SliceTo(removed, line_ - 1)
             \o NewTypingImport(import_completion)
             \o SliceFrom(removed, line_ - 1)

\* the oracle can hand back the text of the range itself: "def f(a:" completed
\* by the rest of a one-line signature whose first argument is annotated; the
\* prompt names args.args[0], which opens the line only when no positional-only
\* parameter stands before it
CanEcho(function_range_) ==
    /\ function_range_.typedness = "no_args"
    /\ function_range_.start = function_range_.end
    /\ function_range_.node.args.posonlyargs = <<>>
    /\ function_range_.node.args.args[1] = "annotated"

\* what complete() can return for the prompt of a function
Completions(function_range_) ==
    {CompletionLines(function_range_.start, k) : k \in 1..MaxCompletionLines}
    \cup (IF CanEcho(function_range_) THEN {<<Orig(function_range_.start)>>} ELSE {})

-----------------------------------------------------------------------------
(* Inputs: the files the range generator is run on *)

Arguments ==
    [posonlyargs : SeqUpTo(ArgKinds, MaxOtherArgs),
     args : SeqUpTo(ArgKinds, MaxArgs),
     vararg : OptArgKinds,
     kwonlyargs : SeqUpTo(ArgKinds, MaxOtherArgs),
     kwarg : OptArgKinds]

\* the statements that decide has_return_statement
ReturnBodyKinds == {"pass", "return", "yield", "yield_from", "if_return", "def_return"}

Bodies == SeqUpTo(ReturnBodyKinds, MaxBody) \ {<<>>}

OneArg(kind) == [EmptyArguments EXCEPT !.args = <<kind>>]

\* def g() -> T: followed by a return on the next line
ReturningNeighbour ==
    FunctionDef(<<"def_colon">>, FALSE, <<>>, EmptyArguments, TRUE, <<"return">>)

\* one function with a one-line signature and any arguments, return annotation
\* and body, followed by a neighbour that returns
TypedContents ==
    {<<FunctionDef(<<"def_colon">>, FALSE, <<>>, a, r, b), ReturningNeighbour>> :
        a \in Arguments, r \in BOOLEAN, b \in Bodies}

\* the body on the line of the colon: simple statements only
InlineFunctions ==
    {FunctionDef(sig, TRUE, <<>>, OneArg(k), FALSE, <<b>>) :
        sig \in Signatures, k \in ArgKinds, b \in {"pass", "return"}}

\* the body below the colon, after any blank and comment-only lines
BlockFunctions ==
    {FunctionDef(sig, FALSE, t, OneArg(k), FALSE, <<b>>) :
        sig \in Signatures, t \in SeqUpTo(TrailingKinds, MaxTrailing),
        k \in ArgKinds, b \in {"return", "decorated_def"}}

LayoutContents ==
    {prefix \o <<f>> :
        prefix \in {<<>>, <<SimpleStmt("Expr", "none")>>},
        f \in InlineFunctions \cup BlockFunctions}

-----------------------------------------------------------------------------
(* The range generator run on its own, as the tests run it *)

InitRanges ==
    /\ content \in TypedContents \cup LayoutContents
    /\ pc = "ranges"
    /\ fn_index = 1
    /\ function_range = NoRange
    /\ exception = "none"
    /\ mode = "file"
    /\ remaining = 0
    /\ parse_failed = FALSE
    /\ first_import_line = NoLine
    /\ lines = <<>>
    /\ offset = 0
    /\ prepped = <<>>
    /\ completion = NoCompletion
    /\ before_import = <<>>
    /\ history = <<>>

\* one resumption of the generator: the next top-level FunctionDef is resolved
\* and yielded, tokenize raises, or the nodes are exhausted
NextRange ==
    /\ pc = "ranges"
    /\ IF ~HasNextFunction(content, fn_index)
       THEN /\ pc' = "exhausted"
            /\ UNCHANGED <<fn_index, function_range, exception>>
       ELSE LET i == NextFunction(content, fn_index) IN
            IF RangeRaises(content[i], StartLine(content, i))
            THEN /\ pc' = "aborted"
                 /\ exception' = "TokenError"
                 /\ UNCHANGED <<fn_index, function_range>>
            ELSE /\ function_range' = TypedFunctionRange(content, i)
                 /\ fn_index' = i + 1
                 /\ UNCHANGED <<pc, exception>>
    /\ UNCHANGED <<mode, remaining, parse_failed, content,
                   first_import_line, lines, offset, prepped, completion,
                   before_import, history>>

SpecRanges == InitRanges /\ [][NextRange]_vars

-----------------------------------------------------------------------------
(* Properties of the yielded ranges *)

Yielded == function_range.typedness # "none"

\* some parameter of the parameter list, of any kind, has no annotation
SomeParameterUnannotated(node) ==
    \/ \E i \in 1..Len(node.args.posonlyargs) : node.args.posonlyargs[i] = "bare"
    \/ \E i \in 1..Len(node.args.args) : node.args.args[i] = "bare"
    \/ \E i \in 1..Len(node.args.kwonlyargs) : node.args.kwonlyargs[i] = "bare"
    \/ node.args.vararg = "bare"
    \/ node.args.kwarg = "bare"

\* a return or yield statement of the function itself: directly in its body or
\* in a compound statement of it, not in a function defined inside it
OwnReturnOrYield(node) ==
    \E j \in 1..Len(node.body) : node.body[j] \in {"return", "yield", "if_return"}

\* only blank and comment-only lines stand between the signature and the first
\* body statement
OnlyBlankAndCommentsBeforeBody(node) == node.body[1] # "decorated_def"

\* C1: a function with at least one unannotated parameter (positional,
\* keyword-only or variadic) is classified no_args, whatever its return
\* annotation and body.
C1_UnannotatedParameterGivesNoArgs ==
    (Yielded /\ SomeParameterUnannotated(function_range.node))
        => function_range.typedness = "no_args"

\* C2: a function whose parameters are all annotated is classified no_return
\* exactly when it has no return annotation and a return or yield statement of
\* its own, and fully in every other case.
C2_NoReturnExactlyWhenOwnReturnUnannotated ==
    (Yielded /\ ~SomeParameterUnannotated(function_range.node))
        => function_range.typedness =
              (IF ~function_range.node.returns /\ OwnReturnOrYield(function_range.node)
               THEN "no_return" ELSE "fully")

\* C3: for a signature of any number of lines followed by any blank and
\* comment-only lines, the yielded range starts at the def keyword and ends at
\* the line of the terminating colon.
C3_RangeIsDefLineToColonLine ==
    (Yielded /\ OnlyBlankAndCommentsBeforeBody(function_range.node))
        => /\ function_range.start = function_range.node.lineno
           /\ function_range.end =
                  ColonLine(function_range.node, function_range.node.lineno)

\* C4: every yielded range satisfies start <= end < line of the first body
\* statement.
C4_RangeNonEmptyAndBeforeBody ==
    Yielded
        => /\ function_range.start <= function_range.end
           /\ function_range.end <
                  FirstBodyLineno(function_range.node, function_range.node.lineno)

\* What does hold of the ranges: with the first body statement on a line below
\* the colon, the range is the def line to the colon line and excludes the body.
RangeIsSignatureWhenBodyBelow ==
    (Yielded /\ ~function_range.node.inline
            /\ OnlyBlankAndCommentsBeforeBody(function_range.node))
        => /\ function_range.start = function_range.node.lineno
           /\ function_range.end =
                  ColonLine(function_range.node, function_range.node.lineno)
           /\ function_range.start <= function_range.end
           /\ function_range.end <
                  FirstBodyLineno(function_range.node, function_range.node.lineno)

\* What does hold of the classifier: only the positional-or-keyword parameters
\* (args.args) are looked at, and any Return or Yield node on the lines of the
\* body counts, also one of a nested function.
ClassifierAsCoded ==
    Yielded
        => LET node == function_range.node IN
           function_range.typedness =
              (IF \E i \in 1..Len(node.args.args) : node.args.args[i] = "bare"
               THEN "no_args"
               ELSE IF ~node.returns
                       /\ \E j \in 1..Len(node.body) :
                            node.body[j] \in {"return", "yield", "if_return",
                                              "def_return", "decorated_def"}
                    THEN "no_return" ELSE "fully")

-----------------------------------------------------------------------------
(* Inputs: the files of a run of main *)

NoArgsOneLine ==
    FunctionDef(<<"def_colon">>, FALSE, <<>>,
                [EmptyArguments EXCEPT !.args = <<"annotated", "bare">>],
                FALSE, <<"return">>)

NoReturnManyLines ==
    FunctionDef(<<"def_open", "param", "close_colon">>, FALSE, <<"comment">>,
                OneArg("annotated"), FALSE, <<"return">>)

FullyTyped ==
    FunctionDef(<<"def_colon">>, FALSE, <<>>, OneArg("annotated"), TRUE, <<"return">>)

NoArgsInline ==
    FunctionDef(<<"def_colon">>, TRUE, <<>>, OneArg("bare"), FALSE, <<"return">>)

NoArgsImporting ==
    FunctionDef(<<"def_colon">>, FALSE, <<>>, OneArg("bare"), FALSE,
                <<"import", "return">>)

InlineManyLines ==
    FunctionDef(<<"def_open", "close_colon">>, TRUE, <<>>, OneArg("bare"), FALSE,
                <<"return">>)

FileStatements ==
    {SimpleStmt("Import", "os"), SimpleStmt("ImportFrom", "typing"),
     SimpleStmt("Import", "typing"), SimpleStmt("Expr", "none"),
     NoArgsOneLine, NoReturnManyLines, FullyTyped, NoArgsInline,
     NoArgsImporting, InlineManyLines}

AutoContents == SeqUpTo(FileStatements, MaxStmts)

-----------------------------------------------------------------------------
(* main and auto_typing *)

Init ==
    /\ mode \in {"dir", "file"}
    /\ remaining \in (IF mode = "dir" THEN 0..MaxFiles ELSE {1})
    /\ pc = "main"
    /\ exception = "none"
    /\ parse_failed = FALSE
    /\ content = <<>>
    /\ first_import_line = NoLine
    /\ lines = <<>>
    /\ offset = 0
    /\ fn_index = 1
    /\ function_range = NoRange
    /\ prepped = <<>>
    /\ completion = NoCompletion
    /\ before_import = <<>>
    /\ history = <<>>

file_vars == <<parse_failed, content, first_import_line, lines, offset,
               fn_index, function_range, prepped, completion, before_import,
               history>>

\* main: the next file of os.walk, processed when its name ends in ".py"; a
\* path that is no directory is processed whatever its name
MainNext ==
    /\ pc = "main"
    /\ remaining > 0
    /\ remaining' = remaining - 1
    /\ \E is_py \in BOOLEAN :
          pc' = IF mode = "file" \/ is_py THEN "auto_typing" ELSE "main"
    /\ UNCHANGED <<mode, exception>>
    /\ UNCHANGED file_vars

MainDone ==
    /\ pc = "main"
    /\ remaining = 0
    /\ pc' = "done"
    /\ UNCHANGED <<mode, remaining, exception>>
    /\ UNCHANGED file_vars

\* auto_typing up to its loop: the file is read and parsed by find_first_import
Parsed(c) ==
    /\ content' = c
    /\ parse_failed' = FALSE
    /\ first_import_line' = find_first_import(c)
    /\ lines' = SplitLines(c)
    /\ offset' = 0
    /\ pc' = "loop"
    /\ UNCHANGED exception

ParseFails ==
    /\ content' = <<>>
    /\ parse_failed' = TRUE
    /\ first_import_line' = NoLine
    /\ lines' = <<>>
    /\ offset' = 0
    /\ pc' = "aborted"
    /\ exception' = "SyntaxError"

AutoTypingOpen ==
    /\ pc = "auto_typing"
    /\ fn_index' = 1
    /\ function_range' = NoRange
    /\ prepped' = <<>>
    /\ completion' = NoCompletion
    /\ before_import' = <<>>
    /\ history' = <<>>
    /\ \E parses \in BOOLEAN :
          IF parses THEN \E c \in AutoContents : Parsed(c) ELSE ParseFails
    /\ UNCHANGED <<mode, remaining>>

\* one turn of the loop up to the oracle: the generator yields the next range,
\* a fully typed function is skipped, prep_file builds the prompt
LoopNext ==
    /\ pc = "loop"
    /\ IF ~HasNextFunction(content, fn_index)
       THEN /\ pc' = "import"
            /\ before_import' = lines
            /\ UNCHANGED <<exception, fn_index, function_range, prepped>>
       ELSE LET i == NextFunction(content, fn_index)
                range == TypedFunctionRange(content, i)
            IN  IF RangeRaises(content[i], StartLine(content, i))
                THEN /\ pc' = "aborted"
                     /\ exception' = "TokenError"
                     /\ UNCHANGED <<fn_index, function_range, prepped, before_import>>
                ELSE /\ function_range' = range
                     /\ fn_index' = i + 1
                     /\ UNCHANGED before_import
                     /\ IF range.typedness \notin {"no_return", "no_args"}
                        THEN /\ pc' = "loop"
                             /\ UNCHANGED <<exception, prepped>>
                        ELSE IF first_import_line # NoLine
                                /\ ~PrepFileAssertion(range, first_import_line)
                        THEN /\ pc' = "aborted"
                             /\ exception' = "AssertionError"
                             /\ UNCHANGED prepped
                        ELSE /\ pc' = "complete"
                             /\ prepped' = prep_file(SplitLines(content), range,
                                                     PrepFunctionDef(range.start),
                                                     first_import_line)
                             /\ UNCHANGED exception
    /\ UNCHANGED <<mode, remaining, parse_failed, content,
                   first_import_line, lines, offset, completion, history>>

\* try_complete_or_shorten: complete(prompt)
Complete ==
    /\ pc = "complete"
    /\ \/ \E c \in Completions(function_range) :
             /\ completion' = c
             /\ pc' = "splice"
             /\ UNCHANGED exception
       \/ \E exc \in OracleExceptions :
             /\ completion' = NoCompletion
             /\ IF CaughtInTryComplete(exc)
                THEN /\ pc' = "retry"
                     /\ UNCHANGED exception
                ELSE IF CaughtInLoop(exc)
                     THEN /\ pc' = "splice"
                          /\ UNCHANGED exception
                     ELSE /\ pc' = "aborted"
                          /\ exception' = exc
    /\ UNCHANGED <<mode, remaining, parse_failed, content,
                   first_import_line, lines, offset, fn_index, function_range,
                   prepped, before_import, history>>

\* try_complete_or_shorten: complete(shortened prompt) inside the except clause;
\* what it raises leaves try_complete_or_shorten and meets the except clause of
\* the loop, which lets every exception but InvalidRequestError pass
Retry ==
    /\ pc = "retry"
    /\ \/ \E c \in Completions(function_range) :
             /\ completion' = c
             /\ pc' = "splice"
             /\ UNCHANGED exception
       \/ \E exc \in OracleExceptions :
             /\ completion' = NoCompletion
             /\ IF CaughtInLoop(exc)
                THEN /\ pc' = "splice"
                     /\ UNCHANGED exception
                ELSE /\ pc' = "aborted"
                     /\ exception' = exc
    /\ UNCHANGED <<mode, remaining, parse_failed, content,
                   first_import_line, lines, offset, fn_index, function_range,
                   prepped, before_import, history>>

\* the rest of the turn: the completion, when there is one, is spliced in
Splice ==
    /\ pc = "splice"
    /\ IF completion # NoCompletion
       THEN /\ lines' = SpliceLines(lines, offset, function_range, completion)
            /\ offset' = OffsetAfter(offset, function_range, completion)
       ELSE UNCHANGED <<lines, offset>>
    /\ history' = Append(history, [start |-> function_range.start,
                                   end |-> function_range.end,
                                   completion |-> completion])
    /\ pc' = "loop"
    /\ UNCHANGED <<mode, remaining, exception, parse_failed, content,
                   first_import_line, fn_index, function_range, prepped,
                   completion, before_import>>

\* after the loop: the typing import is completed (" *" when the oracle rejects
\* the prompt twice; any other exception of the oracle leaves auto_typing), an
\* existing typing import is replaced, the output is written
Finish ==
    /\ pc = "import"
    /\ \/ /\ \E import_completion \in {"import_completion", "import_star"} :
                lines' = WithTypingImport(content, lines, first_import_line,
                                          import_completion)
          /\ first_import_line' = FirstImportLineAfterWalk(content, first_import_line)
          /\ pc' = "written"
          /\ UNCHANGED exception
       \/ /\ \E exc \in OracleExceptions :
                /\ ~CaughtAtImport(exc)
                /\ exception' = exc
          /\ pc' = "aborted"
          /\ UNCHANGED <<lines, first_import_line>>
    /\ UNCHANGED <<mode, remaining, parse_failed, content,
                   offset, fn_index, function_range, prepped,
                   completion, before_import, history>>

\* auto_typing returns to main: its locals are gone
AutoTypingReturn ==
    /\ pc = "written"
    /\ pc' = "main"
    /\ parse_failed' = FALSE
    /\ content' = <<>>
    /\ first_import_line' = NoLine
    /\ lines' = <<>>
    /\ offset' = 0
    /\ fn_index' = 1
    /\ function_range' = NoRange
    /\ prepped' = <<>>
    /\ completion' = NoCompletion
    /\ before_import' = <<>>
    /\ history' = <<>>
    /\ UNCHANGED <<mode, remaining, exception>>

Next ==
    \/ MainNext
    \/ MainDone
    \/ AutoTypingOpen
    \/ LoopNext
    \/ Complete
    \/ Retry
    \/ Splice
    \/ Finish
    \/ AutoTypingReturn

Spec == Init /\ [][Next]_vars

-----------------------------------------------------------------------------
(* Properties of auto_typing and main *)

InLoop == pc \in {"loop", "complete", "retry", "splice", "import"}

\* the file as read with the range of every spliced function replaced by its
\* completion lines, built from the front without any offset
RECURSIVE Rebuild(_, _, _)
Rebuild(orig, hist, from) ==
    IF hist = <<>> THEN SubSeq(orig, from, Len(orig))
    ELSE LET h == Head(hist) IN
         IF h.completion = NoCompletion THEN Rebuild(orig, Tail(hist), from)
         ELSE SubSeq(orig, from, h.start - 1) \o h.completion
              \o Rebuild(orig, Tail(hist), h.end + 1)

\* every completion so far is the text of its own range
OnlyEchoes(orig, hist) ==
    \A i \in 1..Len(hist) :
        hist[i].completion # NoCompletion
            => hist[i].completion = SubSeq(orig, hist[i].start, hist[i].end)

\* C5: the splice loop with its running offset leaves the original lines with
\* each processed range replaced by its replacement lines and every other line
\* unchanged and in order; replacements identical to the ranges leave the file
\* as it was and the offset 0.
C5_SpliceReplacesEachRange ==
    InLoop
        => /\ lines = Rebuild(SplitLines(content), history, 1)
           /\ OnlyEchoes(SplitLines(content), history)
                 => (lines = SplitLines(content) /\ offset = 0)

\* two functions spliced, the first with a completion of another length than
\* its range
C5_Witness ==
    /\ pc = "import"
    /\ Len(history) >= 2
    /\ history[1].completion # NoCompletion
    /\ history[2].completion # NoCompletion
    /\ Len(history[1].completion) # history[1].end + 1 - history[1].start
    /\ history[1].start <= history[1].end

\* a function was spliced with its own text
RoundTripReached ==
    /\ pc = "import"
    /\ history # <<>>
    /\ history[1].completion # NoCompletion
    /\ OnlyEchoes(SplitLines(content), history)

\* C6: when the first oracle call and the retry both fail, the function's lines
\* and the running offset stay as they are and the loop goes on to the next
\* function: neither the file nor the run is aborted.  In a step of the retry
\* completion' = NoCompletion says that the retry failed.
C6_OracleFailureSkipsOnlyTheFunction ==
    [][/\ (pc = "retry" /\ completion' = NoCompletion)
             => /\ pc' = "splice"
                /\ exception' = "none"
                /\ lines' = lines
                /\ offset' = offset
       /\ (pc = "splice" /\ completion = NoCompletion)
             => /\ lines' = lines
                /\ offset' = offset
                /\ pc' = "loop"
                /\ exception' = "none"]_vars

\* what the code does when both calls fail: the function is left alone and the
\* loop goes on when the retry raised InvalidRequestError, and the run ends with
\* the exception of the retry otherwise
OracleFailureAsCoded ==
    [][/\ (pc = "retry" /\ completion' = NoCompletion)
             => /\ lines' = lines
                /\ offset' = offset
                /\ \/ pc' = "splice" /\ exception' = "none"
                   \/ pc' = "aborted" /\ exception' \in OracleExceptions
                                      /\ ~CaughtInLoop(exception')
       /\ (pc = "splice" /\ completion = NoCompletion)
             => /\ lines' = lines
                /\ offset' = offset
                /\ pc' = "loop"
                /\ exception' = "none"]_vars

\* a function left alone after two rejected prompts, and a later one spliced
OracleRejectedTwiceReached ==
    \E i \in 1..Len(history) : \E j \in 1..Len(history) :
        /\ i < j
        /\ history[i].completion = NoCompletion
        /\ history[j].completion # NoCompletion
        /\ lines # SplitLines(content)

\* C7: in directory mode a file that fails to parse is skipped and the walk
\* goes on to the files that remain: the parse failure never aborts the batch.
C7_ParseFailureSkipsOnlyTheFile ==
    (mode = "dir" /\ parse_failed /\ remaining > 0) => pc # "aborted"

\* the lines before start, with "from typing import *" above the first import
\* line, or on top when there is none
BeforeWithTypingStar(start, first_import_line_) ==
    (IF first_import_line_ = NoLine THEN <<TypingStar>> ELSE <<>>)
    \o Flatten([i \in 1..(start - 1) |->
                  IF i = first_import_line_ THEN <<TypingStar, Orig(i)>>
                  ELSE <<Orig(i)>>])

\* C8: for a range with start <= end and a first import line that is None or
\* less than start, prep_file returns the lines after end, a separator, the
\* lines before start with the typing import inserted, and the partial
\* signature.
C8_PrepFileCutsTheRange ==
    (pc = "complete" /\ function_range.start <= function_range.end)
        => prepped =
              [i \in 1..(TotalLines(content) - function_range.end) |->
                  Orig(function_range.end + i)]
              \o <<Newline>>
              \o BeforeWithTypingStar(function_range.start, first_import_line)
              \o <<PrepFunctionDef(function_range.start)>>

\* a prompt built for a function below an import
C8_Witness ==
    /\ pc = "complete"
    /\ first_import_line # NoLine
    /\ function_range.start < function_range.end
    /\ function_range.end < TotalLines(content)

\* C9: the first import line is None or less than the start of every function
\* that is not fully typed: the assertion of prep_file never fails.
C9_PrepFileAssertionNeverFails ==
    ~(pc = "aborted" /\ exception = "AssertionError")

\* lines_ with line number line_ of the file as read replaced by new
WithLineReplaced(lines_, line_, new) ==
    LET at == CHOOSE i \in 1..Len(lines_) : lines_[i] = Orig(line_)
    IN  SubSeq(lines_, 1, at - 1) \o new \o SubSeq(lines_, at + 1, Len(lines_))

\* every range the loop dealt with runs from its def line to a later or equal line
RangesWellFormed == \A i \in 1..Len(history) : history[i].start <= history[i].end

\* C10: the typing-import step removes from the spliced lines exactly the line
\* of the existing typing import and puts the new import line in its place,
\* whatever offset the splices accumulated.  Stated for the files whose ranges
\* are all well formed, where the splices replace what they should.
C10_TypingImportLineReplaced ==
    (pc = "written" /\ TypingImportLine(content) # NoLine /\ RangesWellFormed)
        => \E import_completion \in {"import_completion", "import_star"} :
              lines = WithLineReplaced(before_import, TypingImportLine(content),
                                       NewTypingImport(import_completion))

=============================================================================
